---- MODULE Spec2Model ----
(***************************************************************************)
(* Model of testcontainers-node:                                           *)
(*   - GenericContainerBuilder (generic-container-builder.ts): build(),    *)
(*     buildWithBuildKit() and getRegistryConfig(), one action per await   *)
(*     point of the async functions;                                       *)
(*   - createContainer (functions/container/create-container.ts) with      *)
(*     getExposedPorts / getPortBindings.                                  *)
(* JavaScript objects are modelled as sequences of <<key, value>> pairs in *)
(* insertion order (the order Object.entries yields).                      *)
(***************************************************************************)
EXTENDS Integers, Sequences, FiniteSets, TLC

\* ---------------------------------------------------------------- bounds
MaxImages == 2
MaxEntries == 2
MaxPorts == 2

\* ------------------------------------------------------------ input sets
Undefined == "undefined"

Images == {"localhost/uuid1:uuid2", "custom:tag"}

SessionIds == {"session-1"}

StaleSessionIds == {"session-0"}

Registries == {Undefined, "registry.example"}

indexServerAddress == "index.docker.io"

NoAuth == [defined |-> FALSE]

AuthConfigs == {[defined |-> TRUE, registryAddress |-> "addrA", username |-> "u1", password |-> "p1"],
                [defined |-> TRUE, registryAddress |-> "addrA", username |-> "u2", password |-> "p2"],
                [defined |-> TRUE, registryAddress |-> "addrB", username |-> "u1", password |-> "p1"]}

\* client.image.load resolves without a value; the value is what .then(next)
\* hands to next.
LoadValues == {Undefined}

Ports == {22, 80, 8080}

Handles == {"container-1", "container-2"}

EngineErrors == {"conflict", "no such image"}

\* ------------------------------------------------------- JS object helpers
ObjKeys(obj) == {obj[i][1] : i \in DOMAIN obj}

ObjHas(obj, k) == k \in ObjKeys(obj)

ObjGet(obj, k) == obj[CHOOSE i \in DOMAIN obj : obj[i][1] = k][2]

ObjSet(obj, k, v) ==
  IF ObjHas(obj, k)
  THEN [i \in DOMAIN obj |-> IF obj[i][1] = k THEN <<k, v>> ELSE obj[i]]
  ELSE Append(obj, <<k, v>>)

RECURSIVE ObjSpread(_, _)
ObjSpread(prev, next) ==
  IF next = <<>> THEN prev
  ELSE ObjSpread(ObjSet(prev, Head(next)[1], Head(next)[2]), Tail(next))

\* ------------------------------------------------------------- labels
LABEL_TESTCONTAINERS == "org.testcontainers"

LABEL_TESTCONTAINERS_SESSION_ID == "org.testcontainers.session-id"

\* createLabels() lives in utils/labels: it returns the provenance labels and
\* may or may not already carry a session-id entry.
CreateLabelsResults ==
  {<< <<LABEL_TESTCONTAINERS, "true">> >>}
  \cup {<< <<LABEL_TESTCONTAINERS, "true">>, <<LABEL_TESTCONTAINERS_SESSION_ID, s>> >> : s \in StaleSessionIds \cup SessionIds}

BuildLabels_NoSessionLabel(base, deleteOnExit, sessionId) == base

BuildLabels_KeepCreateLabelsValue(base, deleteOnExit, sessionId) ==
  IF deleteOnExit /\ ~ObjHas(base, LABEL_TESTCONTAINERS_SESSION_ID)
  THEN ObjSet(base, LABEL_TESTCONTAINERS_SESSION_ID, sessionId)
  ELSE base

BuildLabels(base, deleteOnExit, sessionId) ==
  IF deleteOnExit
  THEN ObjSet(base, LABEL_TESTCONTAINERS_SESSION_ID, sessionId)
  ELSE base

\* ------------------------------------------------------- builder defaults
\* Fields of the builder as the constructor leaves them; of the setters only
\* withBuildKit is exercised.
context == "/ctx"

dockerfileName == "Dockerfile"

buildArgs == <<>>

shouldPull == FALSE

cache == TRUE

target == Undefined

\* ------------------------------------------------------------- variables
VARIABLES pc, useBuildKit, imageName, options, reaper, authLookup,
          imageNames, pending, authConfigs, registryConfig,
          baseLabels, labels, buildRequest, command,
          numEntries, emitted, locked, inflight, loadsSettled,
          trace, result,
          cpc, cOptions, cRequests, cReplies, cLog, cResult

buildVars == <<pc, useBuildKit, imageName, options, reaper, authLookup,
               imageNames, pending, authConfigs, registryConfig,
               baseLabels, labels, buildRequest, command,
               numEntries, emitted, locked, inflight, loadsSettled,
               trace, result>>

createVars == <<cpc, cOptions, cRequests, cReplies, cLog, cResult>>

vars == <<pc, useBuildKit, imageName, options, reaper, authLookup,
          imageNames, pending, authConfigs, registryConfig,
          baseLabels, labels, buildRequest, command,
          numEntries, emitted, locked, inflight, loadsSettled,
          trace, result,
          cpc, cOptions, cRequests, cReplies, cLog, cResult>>

NoResult == [kind |-> "none"]

ErrorResult(e) == [kind |-> "error", error |-> e]

ContainerResult(img) == [kind |-> "container", image |-> img]

LookupKeys == (Registries \ {Undefined}) \cup {indexServerAddress}

AuthLookups == [LookupKeys -> {NoAuth} \cup AuthConfigs]

Init ==
  /\ pc = "config"
  /\ useBuildKit = FALSE
  /\ imageName = Undefined
  /\ options = [deleteOnExit |-> TRUE]
  /\ reaper = [sessionId |-> Undefined]
  /\ authLookup \in AuthLookups
  /\ imageNames = <<>>
  /\ pending = {}
  /\ authConfigs = <<>>
  /\ registryConfig = <<>>
  /\ baseLabels = <<>>
  /\ labels = <<>>
  /\ buildRequest = <<>>
  /\ command = <<>>
  /\ numEntries = 0
  /\ emitted = 0
  /\ locked = FALSE
  /\ inflight = {}
  /\ loadsSettled = 0
  /\ trace = <<>>
  /\ result = NoResult
  /\ cpc = "idle"
  /\ cOptions = [exposedPorts |-> <<>>]
  /\ cRequests = <<>>
  /\ cReplies = <<>>
  /\ cLog = <<>>
  /\ cResult = NoResult

\* --------------------------------------------------------------- build()
Reject(e) ==
  /\ pc' = "rejected"
  /\ result' = ErrorResult(e)

withBuildKit(b) ==
  /\ pc = "config"
  /\ useBuildKit' = b
  /\ UNCHANGED <<pc, imageName, options, reaper, authLookup, imageNames, pending,
                 authConfigs, registryConfig, baseLabels, labels, buildRequest,
                 command, numEntries, emitted, locked, inflight, loadsSettled,
                 trace, result>>
  /\ UNCHANGED createVars

Build(image, opts) ==
  /\ pc = "config"
  /\ pc' = "getContainerRuntimeClient"
  /\ imageName' = image
  /\ options' = opts
  /\ UNCHANGED <<useBuildKit, reaper, authLookup, imageNames, pending,
                 authConfigs, registryConfig, baseLabels, labels, buildRequest,
                 command, numEntries, emitted, locked, inflight, loadsSettled,
                 trace, result>>
  /\ UNCHANGED createVars

GetClientResolved ==
  /\ pc = "getContainerRuntimeClient"
  /\ pc' = "getReaper"
  /\ UNCHANGED <<useBuildKit, imageName, options, reaper, authLookup, imageNames,
                 pending, authConfigs, registryConfig, baseLabels, labels,
                 buildRequest, command, numEntries, emitted, locked, inflight,
                 loadsSettled, trace, result>>
  /\ UNCHANGED createVars

GetClientRejected ==
  /\ pc = "getContainerRuntimeClient"
  /\ Reject("ClientError")
  /\ UNCHANGED <<useBuildKit, imageName, options, reaper, authLookup, imageNames,
                 pending, authConfigs, registryConfig, baseLabels, labels,
                 buildRequest, command, numEntries, emitted, locked, inflight,
                 loadsSettled, trace>>
  /\ UNCHANGED createVars

GetReaperResolved(sid) ==
  /\ pc = "getReaper"
  /\ pc' = "getDockerfileImages"
  /\ reaper' = [sessionId |-> sid]
  /\ trace' = Append(trace, "reaperObtained")
  /\ UNCHANGED <<useBuildKit, imageName, options, authLookup, imageNames,
                 pending, authConfigs, registryConfig, baseLabels, labels,
                 buildRequest, command, numEntries, emitted, locked, inflight,
                 loadsSettled, result>>
  /\ UNCHANGED createVars

GetReaperRejected_Swallowed ==
  /\ pc = "getReaper"
  /\ pc' = "getDockerfileImages"
  /\ trace' = Append(trace, "reaperFailed")
  /\ UNCHANGED <<useBuildKit, imageName, options, reaper, authLookup, imageNames,
                 pending, authConfigs, registryConfig, baseLabels, labels,
                 buildRequest, command, numEntries, emitted, locked, inflight,
                 loadsSettled, result>>
  /\ UNCHANGED createVars

GetReaperRejected ==
  /\ pc = "getReaper"
  /\ Reject("ReaperError")
  /\ trace' = Append(trace, "reaperFailed")
  /\ UNCHANGED <<useBuildKit, imageName, options, reaper, authLookup, imageNames,
                 pending, authConfigs, registryConfig, baseLabels, labels,
                 buildRequest, command, numEntries, emitted, locked, inflight,
                 loadsSettled>>
  /\ UNCHANGED createVars

\* ------------------------------------------------- getRegistryConfig()
kitVars == <<numEntries, emitted, locked, inflight, loadsSettled>>

RECURSIVE SeqsUpTo(_, _)
SeqsUpTo(S, n) ==
  IF n = 0 THEN {<<>>}
  ELSE LET shorter == SeqsUpTo(S, n - 1)
       IN shorter \cup {Append(q, x) : q \in {r \in shorter : Len(r) = n - 1}, x \in S}

ImageNameLists == SeqsUpTo([registry : Registries], MaxImages)

LookupKey(name) ==
  IF name.registry = Undefined THEN indexServerAddress ELSE name.registry

GetDockerfileImagesResolved(names) ==
  /\ pc = "getDockerfileImages"
  /\ pc' = "getRegistryConfig"
  /\ imageNames' = names
  /\ pending' = DOMAIN names
  /\ authConfigs' = <<>>
  /\ UNCHANGED <<useBuildKit, imageName, options, reaper, authLookup,
                 registryConfig, baseLabels, labels, buildRequest, command,
                 trace, result>>
  /\ UNCHANGED kitVars
  /\ UNCHANGED createVars

GetDockerfileImagesRejected ==
  /\ pc = "getDockerfileImages"
  /\ Reject("DockerfileError")
  /\ UNCHANGED <<useBuildKit, imageName, options, reaper, authLookup, imageNames,
                 pending, authConfigs, registryConfig, baseLabels, labels,
                 buildRequest, command, trace>>
  /\ UNCHANGED kitVars
  /\ UNCHANGED createVars

PushAuthConfig(configs, authConfig) ==
  IF authConfig.defined THEN Append(configs, authConfig) ELSE configs

LookupResolved(i) ==
  /\ pc = "getRegistryConfig"
  /\ i \in pending
  /\ pending' = pending \ {i}
  /\ authConfigs' = PushAuthConfig(authConfigs, authLookup[LookupKey(imageNames[i])])
  /\ UNCHANGED <<pc, useBuildKit, imageName, options, reaper, authLookup,
                 imageNames, registryConfig, baseLabels, labels, buildRequest,
                 command, trace, result>>
  /\ UNCHANGED kitVars
  /\ UNCHANGED createVars

LookupRejected(i) ==
  /\ pc = "getRegistryConfig"
  /\ i \in pending
  /\ pending' = pending \ {i}
  /\ Reject("AuthError")
  /\ UNCHANGED <<useBuildKit, imageName, options, reaper, authLookup,
                 imageNames, authConfigs, registryConfig, baseLabels, labels,
                 buildRequest, command, trace>>
  /\ UNCHANGED kitVars
  /\ UNCHANGED createVars

AuthEntry(authConfig) ==
  << <<authConfig.registryAddress,
       [username |-> authConfig.username, password |-> authConfig.password]>> >>

RECURSIVE ReduceRegistryConfig(_, _)
ReduceRegistryConfig(prev, entries) ==
  IF entries = <<>> THEN prev
  ELSE ReduceRegistryConfig(ObjSpread(prev, AuthEntry(Head(entries))), Tail(entries))

RegistryConfigOf(configs) == ReduceRegistryConfig(<<>>, configs)

AllLookupsDone_Early == Cardinality(pending) <= 1

AllLookupsDone == pending = {}

GetRegistryConfigReturn ==
  /\ pc = "getRegistryConfig"
  /\ AllLookupsDone
  /\ registryConfig' = RegistryConfigOf(authConfigs)
  /\ pc' = "createLabels"
  /\ trace' = Append(trace, "registryConfig")
  /\ UNCHANGED <<useBuildKit, imageName, options, reaper, authLookup, imageNames,
                 pending, authConfigs, baseLabels, labels, buildRequest, command,
                 result>>
  /\ UNCHANGED kitVars
  /\ UNCHANGED createVars

\* ------------------------------------------- build(): labels and dispatch
RECURSIVE OptEntries(_, _)
OptEntries(prefix, obj) ==
  IF obj = <<>> THEN <<>>
  ELSE << <<"--opt">>, <<prefix, Head(obj)[1], "=", Head(obj)[2]>> >> \o OptEntries(prefix, Tail(obj))

RECURSIVE OptRegistryAuth(_)
OptRegistryAuth(obj) ==
  IF obj = <<>> THEN <<>>
  ELSE << <<"--opt">>,
          <<"registry.auth=", Head(obj)[1], "=", Head(obj)[2].username, ":", Head(obj)[2].password>> >>
       \o OptRegistryAuth(Tail(obj))

BuildKitCommand(image, config, lbls) ==
  << <<"build">>, <<"--frontend">>, <<"dockerfile.v0">>,
     <<"--local">>, <<"context=/work">>, <<"--local">>, <<"dockerfile=/work">>,
     <<"--opt">>, <<"filename=./", dockerfileName>>,
     <<"--output">>, <<"type=docker,name=", image, ",dest=/tmp/image.tar">> >>
  \o OptEntries("build-arg:", buildArgs)
  \o (IF shouldPull THEN << <<"--opt">>, <<"image-resolve-mode=pull">> >> ELSE <<>>)
  \o (IF ~cache THEN << <<"--opt">>, <<"no-cache=true">> >> ELSE <<>>)
  \o OptRegistryAuth(config)
  \o OptEntries("label:", lbls)
  \o (IF target # Undefined THEN << <<"--opt">>, <<"target=", target>> >> ELSE <<>>)

ImageBuildRequest(image, config, lbls) ==
  [context |-> context,
   t |-> image,
   dockerfile |-> dockerfileName,
   buildargs |-> buildArgs,
   pull |-> IF shouldPull THEN "true" ELSE Undefined,
   nocache |-> ~cache,
   registryconfig |-> config,
   labels |-> lbls,
   target |-> target]

StartBuildKit ==
  /\ pc' = "buildKitStart"
  /\ command' = BuildKitCommand(imageName, registryConfig, labels')
  /\ trace' = Append(trace, "buildKitStart")
  /\ UNCHANGED buildRequest

StartImageBuild ==
  /\ pc' = "imageBuild"
  /\ buildRequest' = << ImageBuildRequest(imageName, registryConfig, labels') >>
  /\ trace' = Append(trace, "imageBuild")
  /\ UNCHANGED command

DispatchBuild == IF useBuildKit THEN StartBuildKit ELSE StartImageBuild

CreateLabelsAndBuild(base) ==
  /\ pc = "createLabels"
  /\ baseLabels' = base
  /\ labels' = BuildLabels(base, options.deleteOnExit, reaper.sessionId)
  /\ DispatchBuild
  /\ UNCHANGED <<useBuildKit, imageName, options, reaper, authLookup, imageNames,
                 pending, authConfigs, registryConfig, result>>
  /\ UNCHANGED kitVars
  /\ UNCHANGED createVars

CallExists ==
  /\ pc' = "exists"
  /\ trace' = Append(trace, "buildFinished")

ImageBuildResolved ==
  /\ pc = "imageBuild"
  /\ CallExists
  /\ UNCHANGED <<useBuildKit, imageName, options, reaper, authLookup, imageNames,
                 pending, authConfigs, registryConfig, baseLabels, labels,
                 buildRequest, command, result>>
  /\ UNCHANGED kitVars
  /\ UNCHANGED createVars

ImageBuildRejected ==
  /\ pc = "imageBuild"
  /\ Reject("BuildError")
  /\ trace' = Append(trace, "buildFailed")
  /\ UNCHANGED <<useBuildKit, imageName, options, reaper, authLookup, imageNames,
                 pending, authConfigs, registryConfig, baseLabels, labels,
                 buildRequest, command>>
  /\ UNCHANGED kitVars
  /\ UNCHANGED createVars

\* ---------------------------------------------------- buildWithBuildKit()
buildCore == <<useBuildKit, imageName, options, reaper, authLookup, imageNames,
               pending, authConfigs, registryConfig, baseLabels, labels,
               buildRequest, command>>

BuildKitStartResolved ==
  /\ pc = "buildKitStart"
  /\ pc' = "copyArchive"
  /\ trace' = Append(trace, "buildKitReady")
  /\ UNCHANGED <<buildCore, result>>
  /\ UNCHANGED kitVars
  /\ UNCHANGED createVars

BuildKitStartRejected_Swallowed ==
  /\ pc = "buildKitStart"
  /\ pc' = "copyArchive"
  /\ trace' = Append(trace, "buildKitFailed")
  /\ UNCHANGED <<buildCore, result>>
  /\ UNCHANGED kitVars
  /\ UNCHANGED createVars

BuildKitStartRejected ==
  /\ pc = "buildKitStart"
  /\ Reject("StartError")
  /\ trace' = Append(trace, "buildKitFailed")
  /\ UNCHANGED buildCore
  /\ UNCHANGED kitVars
  /\ UNCHANGED createVars

CopyArchiveResolved(n) ==
  /\ pc = "copyArchive"
  /\ pc' = "pipeline"
  /\ numEntries' = n
  /\ emitted' = 0
  /\ locked' = FALSE
  /\ inflight' = {}
  /\ loadsSettled' = 0
  /\ trace' = Append(trace, "archiveCopied")
  /\ UNCHANGED <<buildCore, result>>
  /\ UNCHANGED createVars

CopyArchiveRejected ==
  /\ pc = "copyArchive"
  /\ Reject("CopyError")
  /\ trace' = Append(trace, "copyFailed")
  /\ UNCHANGED buildCore
  /\ UNCHANGED kitVars
  /\ UNCHANGED createVars

OnEntry_NextImmediately ==
  /\ inflight' = inflight \cup {emitted + 1}
  /\ locked' = FALSE

OnEntry ==
  /\ inflight' = inflight \cup {emitted + 1}
  /\ locked' = TRUE

EntryEmitted ==
  /\ pc = "pipeline"
  /\ ~locked
  /\ emitted < numEntries
  /\ emitted' = emitted + 1
  /\ OnEntry
  /\ trace' = Append(trace, "load")
  /\ UNCHANGED <<pc, buildCore, result, numEntries, loadsSettled>>
  /\ UNCHANGED createVars

NextCallback(arg) ==
  IF arg = Undefined
  THEN /\ locked' = FALSE
       /\ UNCHANGED <<pc, result>>
  ELSE /\ Reject(arg)
       /\ UNCHANGED locked

LoadResolved(i, v) ==
  /\ pc = "pipeline"
  /\ i \in inflight
  /\ inflight' = inflight \ {i}
  /\ loadsSettled' = loadsSettled + 1
  /\ NextCallback(v)
  /\ trace' = Append(trace, "loadResolved")
  /\ UNCHANGED <<buildCore, numEntries, emitted>>
  /\ UNCHANGED createVars

LoadRejected(i) ==
  /\ pc = "pipeline"
  /\ i \in inflight
  /\ inflight' = inflight \ {i}
  /\ loadsSettled' = loadsSettled + 1
  /\ NextCallback("LoadError")
  /\ trace' = Append(trace, "loadRejected")
  /\ UNCHANGED <<buildCore, numEntries, emitted>>
  /\ UNCHANGED createVars

PipelineFinished ==
  /\ pc = "pipeline"
  /\ ~locked
  /\ emitted = numEntries
  /\ CallExists
  /\ UNCHANGED <<buildCore, result>>
  /\ UNCHANGED kitVars
  /\ UNCHANGED createVars

\* ------------------------------------------------- build(): existence check
ExistsOutcome_AlwaysContainer(exists) == ContainerResult(imageName)

ExistsOutcome(exists) ==
  IF ~exists THEN ErrorResult("Failed to build image") ELSE ContainerResult(imageName)

ExistsResolved(exists) ==
  /\ pc = "exists"
  /\ result' = ExistsOutcome(exists)
  /\ pc' = IF result'.kind = "error" THEN "rejected" ELSE "resolved"
  /\ trace' = Append(trace, IF exists THEN "existsTrue" ELSE "existsFalse")
  /\ UNCHANGED buildCore
  /\ UNCHANGED kitVars
  /\ UNCHANGED createVars

ExistsRejected ==
  /\ pc = "exists"
  /\ Reject("ExistsError")
  /\ trace' = Append(trace, "existsFailed")
  /\ UNCHANGED buildCore
  /\ UNCHANGED kitVars
  /\ UNCHANGED createVars

Next ==
  \/ \E b \in BOOLEAN : withBuildKit(b)
  \/ \E image \in Images, d \in BOOLEAN : Build(image, [deleteOnExit |-> d])
  \/ GetClientResolved
  \/ GetClientRejected
  \/ \E sid \in SessionIds : GetReaperResolved(sid)
  \/ GetReaperRejected
  \/ \E names \in ImageNameLists : GetDockerfileImagesResolved(names)
  \/ GetDockerfileImagesRejected
  \/ \E i \in pending : LookupResolved(i)
  \/ \E i \in pending : LookupRejected(i)
  \/ GetRegistryConfigReturn
  \/ \E base \in CreateLabelsResults : CreateLabelsAndBuild(base)
  \/ ImageBuildResolved
  \/ ImageBuildRejected
  \/ BuildKitStartResolved
  \/ BuildKitStartRejected
  \/ \E n \in 0..MaxEntries : CopyArchiveResolved(n)
  \/ CopyArchiveRejected
  \/ EntryEmitted
  \/ \E i \in inflight, v \in LoadValues : LoadResolved(i, v)
  \/ \E i \in inflight : LoadRejected(i)
  \/ PipelineFinished
  \/ \E exists \in BOOLEAN : ExistsResolved(exists)
  \/ ExistsRejected

Spec == Init /\ [][Next]_vars

\* ------------------------------------------------------ createContainer()
RECURSIVE NumberToString(_)
NumberToString(n) ==
  IF n < 10 THEN <<n>> ELSE Append(NumberToString(n \div 10), n % 10)

RECURSIVE getExposedPorts(_)
getExposedPorts(exposedPorts) ==
  IF exposedPorts = <<>> THEN <<>>
  ELSE ObjSet(getExposedPorts(SubSeq(exposedPorts, 1, Len(exposedPorts) - 1)),
              NumberToString(exposedPorts[Len(exposedPorts)]), <<>>)

RECURSIVE getPortBindings(_)
getPortBindings_FirstOnly(exposedPorts) ==
  IF exposedPorts = <<>> THEN <<>>
  ELSE << <<NumberToString(exposedPorts[1]), << [HostPort |-> "0"] >> >> >>

getPortBindings(exposedPorts) ==
  IF exposedPorts = <<>> THEN <<>>
  ELSE ObjSet(getPortBindings(SubSeq(exposedPorts, 1, Len(exposedPorts) - 1)),
              NumberToString(exposedPorts[Len(exposedPorts)]), << [HostPort |-> "0"] >>)

PortLists == SeqsUpTo(Ports, MaxPorts)

CreateRequest(opts) ==
  [Image |-> opts.imageName,
   ExposedPorts |-> getExposedPorts(opts.exposedPorts),
   HostConfig |-> [PortBindings |-> getPortBindings(opts.exposedPorts)]]

createContainer(opts) ==
  /\ cpc = "idle"
  /\ cpc' = "creating"
  /\ cOptions' = opts
  /\ cLog' = Append(cLog, <<"info", "Creating container for image">>)
  /\ cRequests' = Append(cRequests, CreateRequest(opts))
  /\ UNCHANGED <<cReplies, cResult>>
  /\ UNCHANGED buildVars

DockerodeCreateResolved(handle) ==
  /\ cpc = "creating"
  /\ cReplies' = Append(cReplies, ContainerResult(handle))
  /\ cResult' = ContainerResult(handle)
  /\ cpc' = "returned"
  /\ UNCHANGED <<cOptions, cRequests, cLog>>
  /\ UNCHANGED buildVars

CatchCreateError_RetryOnce(err) ==
  IF Len(cRequests) < 2
  THEN /\ cRequests' = Append(cRequests, CreateRequest(cOptions))
       /\ UNCHANGED <<cpc, cLog, cResult>>
  ELSE /\ cLog' = Append(cLog, <<"error", err>>)
       /\ cResult' = ErrorResult(err)
       /\ cpc' = "thrown"
       /\ UNCHANGED cRequests

CatchCreateError(err) ==
  /\ cLog' = Append(cLog, <<"error", err>>)
  /\ cResult' = ErrorResult(err)
  /\ cpc' = "thrown"
  /\ UNCHANGED cRequests

DockerodeCreateRejected(err) ==
  /\ cpc = "creating"
  /\ cReplies' = Append(cReplies, ErrorResult(err))
  /\ CatchCreateError(err)
  /\ UNCHANGED cOptions
  /\ UNCHANGED buildVars

NextCreate ==
  \/ \E image \in Images, ports \in PortLists :
       createContainer([imageName |-> image, exposedPorts |-> ports])
  \/ \E handle \in Handles : DockerodeCreateResolved(handle)
  \/ \E err \in EngineErrors : DockerodeCreateRejected(err)

SpecCreate == Init /\ [][NextCreate]_vars

\* =================================================================
\* Properties
\* =================================================================
Has(e) == \E i \in DOMAIN trace : trace[i] = e

Count(e) == Cardinality({i \in DOMAIN trace : trace[i] = e})

Before(a, b) ==
  \A j \in DOMAIN trace : trace[j] = b => \E i \in 1..(j - 1) : trace[i] = a

LastIs(e) == trace # <<>> /\ trace[Len(trace)] = e

NoDuplicateKeys(obj) ==
  \A i, j \in DOMAIN obj : obj[i][1] = obj[j][1] => i = j

ResourceEvents == {"imageBuild", "buildKitStart", "load"}

\* C1: the reaper has been obtained before any resource is created (image
\* build call, BuildKit helper start, image load); when getReaper rejects,
\* build() rejects and no image build, helper start or load ever happens.
C1_ReaperBeforeResources ==
  /\ \A e \in ResourceEvents : Before("reaperObtained", e)
  /\ (buildRequest # <<>> \/ command # <<>>) => reaper.sessionId \in SessionIds
  /\ Has("reaperFailed") =>
       /\ pc = "rejected"
       /\ result = ErrorResult("ReaperError")
       /\ \A e \in ResourceEvents : ~Has(e)
       /\ buildRequest = <<>>
       /\ command = <<>>

C1_Witness == Has("load") /\ Has("reaperObtained")

\* The label set handed to the image build: the labels option of the
\* client.image.build request, or the label options of the BuildKit command.
CommandLabelTokens == SelectSeq(command, LAMBDA tok : tok[1] = "label:")

CommandLabels == [i \in DOMAIN CommandLabelTokens |->
                    <<CommandLabelTokens[i][2], CommandLabelTokens[i][4]>>]

Dispatched == buildRequest # <<>> \/ command # <<>>

HandedLabels == IF command # <<>> THEN CommandLabels ELSE buildRequest[1].labels

\* C2 (as claimed): for every call of build(), whatever the options, the
\* label set handed to the image build contains the session-id label.
C2_Original ==
  Dispatched => ObjHas(HandedLabels, LABEL_TESTCONTAINERS_SESSION_ID)

\* C2 (amended): whenever options.deleteOnExit is true, the label set handed
\* to the image build contains the session-id label.
C2_SessionLabelWhenDeleteOnExit ==
  (Dispatched /\ options.deleteOnExit) =>
     ObjHas(HandedLabels, LABEL_TESTCONTAINERS_SESSION_ID)

C2_Witness ==
  /\ Dispatched
  /\ options.deleteOnExit
  /\ ~ObjHas(baseLabels, LABEL_TESTCONTAINERS_SESSION_ID)
  /\ ObjHas(HandedLabels, LABEL_TESTCONTAINERS_SESSION_ID)

\* C3: build() sets the session-id label iff options.deleteOnExit; when it
\* does, the value is the sessionId of the reaper of this call, overriding
\* whatever createLabels() returned for that key; with deleteOnExit false
\* build() adds nothing to what createLabels() returned; the BuildKit command
\* and the client.image.build request carry the same label set.
C3_SessionLabelIffDeleteOnExit ==
  Dispatched =>
    /\ NoDuplicateKeys(HandedLabels)
    /\ ObjKeys(HandedLabels) =
         ObjKeys(baseLabels) \cup
           (IF options.deleteOnExit THEN {LABEL_TESTCONTAINERS_SESSION_ID} ELSE {})
    /\ \A k \in ObjKeys(baseLabels) \ {LABEL_TESTCONTAINERS_SESSION_ID} :
         ObjGet(HandedLabels, k) = ObjGet(baseLabels, k)
    /\ options.deleteOnExit =>
         ObjGet(HandedLabels, LABEL_TESTCONTAINERS_SESSION_ID) = reaper.sessionId
    /\ ~options.deleteOnExit => HandedLabels = baseLabels
    /\ HandedLabels = labels
    /\ (command # <<>>) = useBuildKit
    /\ (buildRequest # <<>>) = ~useBuildKit

C3_Witness ==
  /\ command # <<>>
  /\ options.deleteOnExit
  /\ ObjHas(baseLabels, LABEL_TESTCONTAINERS_SESSION_ID)
  /\ ObjGet(baseLabels, LABEL_TESTCONTAINERS_SESSION_ID) # reaper.sessionId
  /\ ObjGet(CommandLabels, LABEL_TESTCONTAINERS_SESSION_ID) = reaper.sessionId

\* C4 (as claimed): when getReaper fails and the caller opted out of cleanup
\* (deleteOnExit false), build() does not reject because of the reaper.
C4_ReaperFailureNotFatalWhenOptedOut ==
  (Has("reaperFailed") /\ ~options.deleteOnExit) =>
     ~(pc = "rejected" /\ result = ErrorResult("ReaperError"))

\* ----------------------------------------------------- createContainer()
RECURSIVE ParseNumber(_)
ParseNumber(digits) ==
  IF digits = <<>> THEN 0
  ELSE 10 * ParseNumber(SubSeq(digits, 1, Len(digits) - 1)) + digits[Len(digits)]

DeclaredPorts == {cOptions.exposedPorts[i] : i \in DOMAIN cOptions.exposedPorts}

KeyPorts(obj) == {ParseNumber(k) : k \in ObjKeys(obj)}

\* C5: in the create request, the ports declared in ExposedPorts, the ports
\* bound in PortBindings and the ports of options.exposedPorts are the same
\* set (duplicates collapse to one entry), and every binding is exactly one
\* entry asking for host port "0".
C5_ExposedPortsAllBoundDynamically ==
  \A r \in DOMAIN cRequests :
    LET exposed == cRequests[r].ExposedPorts
        bindings == cRequests[r].HostConfig.PortBindings
    IN /\ NoDuplicateKeys(exposed)
       /\ NoDuplicateKeys(bindings)
       /\ ObjKeys(exposed) = ObjKeys(bindings)
       /\ KeyPorts(exposed) = DeclaredPorts
       /\ KeyPorts(bindings) = DeclaredPorts
       /\ Cardinality(ObjKeys(bindings)) = Cardinality(DeclaredPorts)
       /\ \A i \in DOMAIN bindings : bindings[i][2] = << [HostPort |-> "0"] >>

C5_Witness ==
  /\ cpc = "returned"
  /\ Len(cOptions.exposedPorts) = 2
  /\ Cardinality(DeclaredPorts) = 2
  /\ Len(cRequests[1].HostConfig.PortBindings) = 2

\* C6: one invocation of createContainer issues exactly one create request;
\* a failure of that request is logged and rethrown unchanged, a success
\* returns the handle of that request.
C6_SingleCreateRequestNoRetry ==
  /\ cpc = "idle" => cRequests = <<>>
  /\ cpc # "idle" => Len(cRequests) = 1
  /\ Len(cReplies) <= 1
  /\ cpc = "creating" => cResult = NoResult /\ cReplies = <<>>
  /\ cpc = "thrown" =>
       /\ Len(cReplies) = 1
       /\ cReplies[1].kind = "error"
       /\ cResult = cReplies[1]
       /\ cLog[Len(cLog)] = <<"error", cReplies[1].error>>
  /\ cpc = "returned" =>
       /\ Len(cReplies) = 1
       /\ cReplies[1].kind = "container"
       /\ cResult = cReplies[1]

C6_Witness == cpc = "thrown" /\ cResult \in {ErrorResult(e) : e \in EngineErrors}

\* ------------------------------------------------------- BuildKit path
\* C7: on the BuildKit path the steps happen in order, each after the
\* previous one succeeded: reaper, helper container started and ready,
\* archive copied, entries loaded, existence checked, handle returned. When
\* the helper container's start() rejects nothing is copied or loaded and
\* build() rejects.
C7_BuildKitStepOrder ==
  /\ Before("reaperObtained", "buildKitStart")
  /\ Before("buildKitStart", "buildKitReady")
  /\ Before("buildKitReady", "archiveCopied")
  /\ Before("archiveCopied", "load")
  /\ useBuildKit =>
       /\ Before("archiveCopied", "buildFinished")
       /\ Has("buildFinished") => Count("loadResolved") = numEntries
       /\ Before("buildFinished", "existsTrue")
       /\ Before("buildFinished", "existsFalse")
       /\ pc = "resolved" => LastIs("existsTrue") /\ result = ContainerResult(imageName)
  /\ Has("buildKitFailed") =>
       /\ ~Has("buildKitReady")
       /\ ~Has("archiveCopied")
       /\ ~Has("load")
       /\ pc = "rejected"
       /\ result = ErrorResult("StartError")

C7_Witness ==
  /\ useBuildKit
  /\ pc = "resolved"
  /\ numEntries >= 1
  /\ Count("loadResolved") = numEntries

ExistsEvents == {"existsTrue", "existsFalse", "existsFailed"}

BuildFailureError ==
  [buildFailed |-> "BuildError", buildKitFailed |-> "StartError",
   copyFailed |-> "CopyError", loadRejected |-> "LoadError"]

\* C8: build() resolves only when the engine has reported, after the build
\* step finished, that the image exists; a negative report rejects with
\* "Failed to build image"; a failed build step rejects with its error and
\* the existence check is never made; exactly one build path runs per call.
C8_ResolvesOnlyIfImageExists ==
  /\ pc = "resolved" =>
       /\ result = ContainerResult(imageName)
       /\ LastIs("existsTrue")
       /\ Count("buildFinished") = 1
  /\ \A e \in ExistsEvents : Before("buildFinished", e)
  /\ result.kind = "container" => pc = "resolved"
  /\ Has("existsFalse") =>
       /\ pc = "rejected"
       /\ result = ErrorResult("Failed to build image")
  /\ \A f \in DOMAIN BuildFailureError :
       Has(f) =>
         /\ pc = "rejected"
         /\ result = ErrorResult(BuildFailureError[f])
         /\ \A e \in ExistsEvents : ~Has(e)
         /\ ~Has("buildFinished")
  /\ pc \in {"imageBuild", "buildKitStart", "copyArchive", "pipeline", "exists", "resolved"}
       => Count("imageBuild") + Count("buildKitStart") = 1
  /\ Has("imageBuild") => ~useBuildKit /\ Len(buildRequest) = 1 /\ command = <<>>
  /\ Has("buildKitStart") => useBuildKit /\ buildRequest = <<>> /\ command # <<>>

C8_Witness ==
  /\ Has("existsFalse")
  /\ pc = "rejected"
  /\ result = ErrorResult("Failed to build image")

\* ------------------------------------------------- getRegistryConfig()
RegistryConfigReturned == Has("registryConfig")

LookupResult(i) == authLookup[LookupKey(imageNames[i])]

DefinedLookups == {i \in DOMAIN imageNames : LookupResult(i).defined}

DefinedResults == {LookupResult(i) : i \in DefinedLookups}

Credentials(a) == [username |-> a.username, password |-> a.password]

ObjAsSet(obj) == {obj[i] : i \in DOMAIN obj}

RECURSIVE InOrderAuthConfigs(_)
InOrderAuthConfigs(n) ==
  IF n = 0 THEN <<>>
  ELSE LET earlier == InOrderAuthConfigs(n - 1)
       IN IF LookupResult(n).defined THEN Append(earlier, LookupResult(n)) ELSE earlier

LookupsAgree ==
  \A a, b \in DefinedResults :
    a.registryAddress = b.registryAddress => Credentials(a) = Credentials(b)

LastWithAddress(addr) ==
  authConfigs[CHOOSE i \in DOMAIN authConfigs :
                /\ authConfigs[i].registryAddress = addr
                /\ \A j \in DOMAIN authConfigs :
                     authConfigs[j].registryAddress = addr => j <= i]

\* C9 (as claimed): the returned registry config is the same for every order
\* in which the lookups complete, i.e. it equals the config obtained when
\* they complete in the order of imageNames.
C9_Original ==
  RegistryConfigReturned =>
    ObjAsSet(registryConfig) =
      ObjAsSet(RegistryConfigOf(InOrderAuthConfigs(Len(imageNames))))

\* C9 (amended): the config is returned only after all lookups completed; it
\* has exactly one entry per distinct registryAddress among the defined
\* lookup results and none for undefined results, for every completion
\* order; the credentials of an entry are those of the lookup with that
\* address that completed last, so the whole config is independent of the
\* completion order whenever lookups returning the same registryAddress
\* return the same credentials.
C9_RegistryConfigKeysDeterministic ==
  RegistryConfigReturned =>
    /\ pending = {}
    /\ Len(authConfigs) = Cardinality(DefinedLookups)
    /\ NoDuplicateKeys(registryConfig)
    /\ ObjKeys(registryConfig) = {a.registryAddress : a \in DefinedResults}
    /\ \A addr \in ObjKeys(registryConfig) :
         /\ ObjGet(registryConfig, addr) \in
              {Credentials(a) : a \in {b \in DefinedResults : b.registryAddress = addr}}
         /\ ObjGet(registryConfig, addr) = Credentials(LastWithAddress(addr))
    /\ LookupsAgree =>
         ObjAsSet(registryConfig) =
           {<<a.registryAddress, Credentials(a)>> : a \in DefinedResults}

C9_Witness ==
  /\ RegistryConfigReturned
  /\ Len(imageNames) = 2
  /\ Cardinality(DefinedLookups) = 2
  /\ ~LookupsAgree
  /\ ObjAsSet(registryConfig) #
       ObjAsSet(RegistryConfigOf(InOrderAuthConfigs(Len(imageNames))))

\* C10: archive entries are loaded one at a time: the extraction does not
\* advance while a load is pending, so loads never overlap; the pipeline
\* completes once every entry's load has resolved; a rejected load fails the
\* pipeline with that error, no further entry is loaded and build() rejects
\* without an existence check.
C10_LoadsOneAtATime ==
  /\ Cardinality(inflight) <= 1
  /\ inflight # {} => locked
  /\ emitted - loadsSettled \in {0, 1}
  /\ Count("load") = emitted
  /\ (useBuildKit /\ Has("buildFinished")) =>
       /\ inflight = {}
       /\ emitted = numEntries
       /\ Count("loadResolved") = numEntries
  /\ (pc = "pipeline" /\ Count("loadResolved") = numEntries) => ENABLED PipelineFinished
  /\ Has("loadRejected") =>
       /\ LastIs("loadRejected")
       /\ Count("loadRejected") = 1
       /\ pc = "rejected"
       /\ result = ErrorResult("LoadError")
       /\ \A e \in ExistsEvents : ~Has(e)

C10_Witness ==
  /\ pc = "pipeline"
  /\ emitted = 2
  /\ loadsSettled = 1
  /\ inflight = {2}

====
